---- MODULE Spec2Model ----
(***************************************************************************)
(* A model of snakemake/rules.py: the Rule class (construction with        *)
(* set_input / set_output / set_params / log, dynamic_branch,              *)
(* expand_wildcards, is_producer, get_wildcards) and the Ruleorder class   *)
(* (add, compare).                                                         *)
(*                                                                         *)
(* A file pattern is a sequence of tokens: a token in Names is a wildcard  *)
(* placeholder "{name}", any other token is one literal character.  A      *)
(* concrete path and a wildcard value are sequences of characters.         *)
(* Python's None is the empty sequence <<>>, a value v that may be None is *)
(* the one-element sequence <<v>>.                                         *)
(***************************************************************************)
EXTENDS Integers, Sequences, FiniteSets, TLC

VARIABLES
    rule,       \* the fields of the one Rule object under construction / use
    orig,       \* the fields of that rule when the last operation began
    op,         \* the name of the last operation
    arg,        \* the arguments of the last operation
    ret,        \* what the last operation returned or raised
    order,      \* Ruleorder.order: the list of clauses
    threads,    \* the two concurrent callers of the engine: their local state
    base        \* the rule's fields when the concurrent callers were started

vars == <<rule, orig, op, arg, ret, order, threads, base>>

(***************************************************************************)
(* Bounds and the small sets the inputs are drawn from.                    *)
(***************************************************************************)
MaxOutputs == 2      \* set_output is called while the rule has fewer outputs
MaxPathLen == 2      \* length of the path a rule is asked to produce
MaxK == 2            \* length of the wildcard lists given to dynamic_branch
MaxClauses == 2      \* number of Ruleorder.add calls
MaxClauseLen == 2    \* number of rule names in one clause

Names == {"x", "y"}
Chars == {"a", "b"}
Values == {<<"a">>, <<"b">>}
RuleNames == {"r1", "r2", "r3"}

None == <<>>
Some(v) == <<v>>

Range(s) == {s[i] : i \in DOMAIN s}

SeqsUpTo(S, n) == UNION {[1..k -> S] : k \in 0..n}

RECURSIVE SumLen(_, _)
\* sum(map(len, wildcards.values())) over the names in D
SumLen(b, D) ==
    IF D = {} THEN 0
    ELSE LET n == CHOOSE m \in D : TRUE
         IN Len(b[n]) + SumLen(b, D \ {n})

(***************************************************************************)
(* snakemake.io: patterns.  get_wildcard_names, match, apply_wildcards and *)
(* expand are imported by rules.py (lines 10-12).                          *)
(***************************************************************************)
DynamicFill == <<"*">>   \* the marker a missing wildcard of a dynamic input is filled with

\* IOFile.get_wildcard_names: the names of the placeholders of a pattern
get_wildcard_names(f) == Range(f) \cap Names

IsPrefix(v, p) == Len(v) <= Len(p) /\ SubSeq(p, 1, Len(v)) = v

RECURSIVE MatchFrom(_, _, _)
\* The anchored regex of pattern t against path p with the groups b bound so
\* far: a placeholder is a greedy non-empty group, a repeated name is a
\* back-reference.  None when there is no match, Some(groupdict) otherwise.
MatchFrom(t, p, b) ==
    IF t = <<>> THEN (IF p = <<>> THEN Some(b) ELSE None)
    ELSE IF Head(t) \in Names
    THEN IF Head(t) \in DOMAIN b
         THEN IF IsPrefix(b[Head(t)], p)
              THEN MatchFrom(Tail(t), SubSeq(p, Len(b[Head(t)]) + 1, Len(p)), b)
              ELSE None
         ELSE LET try(n) == MatchFrom(Tail(t), SubSeq(p, n + 1, Len(p)),
                                      b @@ (Head(t) :> SubSeq(p, 1, n)))
                  good == {n \in 1..Len(p) : try(n) # None}
              IN IF good = {} THEN None
                 ELSE try(CHOOSE n \in good : \A m \in good : m <= n)
    ELSE IF p # <<>> /\ Head(p) = Head(t)
         THEN MatchFrom(Tail(t), Tail(p), b)
         ELSE None

\* IOFile.match(path)
match(f, path) == MatchFrom(f, path, <<>>)

RECURSIVE Format(_, _)
\* the pattern with every placeholder replaced by its value; a name without
\* a value is filled with the marker
Format(f, b) ==
    IF f = <<>> THEN <<>>
    ELSE IF Head(f) \in Names
         THEN (IF Head(f) \in DOMAIN b THEN b[Head(f)] ELSE DynamicFill)
              \o Format(Tail(f), b)
         ELSE <<Head(f)>> \o Format(Tail(f), b)

\* IOFile.apply_wildcards(wildcards, fill_missing, fail_dynamic): the
\* rendered pattern, or WildcardError when the pattern is among fail_dynamic
\* or a name has no value and is not filled
apply_wildcards(f, wildcards, fill_missing, fail_dynamic) ==
    IF f \in fail_dynamic \/
       (~fill_missing /\ ~(get_wildcard_names(f) \subseteq DOMAIN wildcards))
    THEN [exc |-> "WildcardError", s |-> <<>>]
    ELSE [exc |-> "none", s |-> Format(f, wildcards)]

\* the number of tuples zip yields over the wildcard lists
ZipLen(wildcards) ==
    IF DOMAIN wildcards = {} THEN 0
    ELSE LET lens == {Len(wildcards[n]) : n \in DOMAIN wildcards}
         IN CHOOSE k \in lens : \A l \in lens : k <= l

\* expand(f, zip, **wildcards): the pattern formatted with the i-th value of
\* every list, for each position i; KeyError when a formatting needs a name
\* that has no list
expand(f, wildcards) ==
    LET k == ZipLen(wildcards)
    IN IF k >= 1 /\ ~(get_wildcard_names(f) \subseteq DOMAIN wildcards)
       THEN [exc |-> "KeyError", files |-> <<>>]
       ELSE [exc |-> "none",
             files |-> [i \in 1..k |->
                          Format(f, [n \in DOMAIN wildcards |-> wildcards[n][i]])]]

Reverse(s) == [i \in 1..Len(s) |-> s[Len(s) + 1 - i]]

(***************************************************************************)
(* Rule: construction.                                                     *)
(*                                                                         *)
(* An item handed to set_input / set_output / set_params is a record: a    *)
(* string (callable = FALSE) with pattern s and the flags the DSL put on   *)
(* it, or a function (callable = TRUE) that returns a value of the given   *)
(* type ("str" with text s, or "int").  The input and params lists hold    *)
(* such records without flags; the output list holds patterns.  The names  *)
(* a Namedlist gives to its items and the ruleio map of expand_wildcards   *)
(* are left out: no operation modelled here reads them.                    *)
(***************************************************************************)
StrItem(f, flags) == [callable |-> FALSE, type |-> "str", s |-> f, flags |-> flags]
FuncItem(type, f) == [callable |-> TRUE, type |-> type, s |-> f, flags |-> {}]
Stored(item) == [callable |-> item.callable, type |-> item.type, s |-> item.s]
IOFile(f) == [callable |-> FALSE, type |-> "str", s |-> f]

\* Rule.__init__(name, workflow): the fields of a new rule
NewRule ==
    [input |-> <<>>, output |-> <<>>, params |-> <<>>, log |-> None,
     dynamic_output |-> {}, dynamic_input |-> {},
     temp_output |-> {}, protected_output |-> {},
     wildcard_names |-> {}]

\* Rule._set_inoutput_item(item, output): the rule afterwards and the
\* exception raised, if any
set_inoutput_item(r, item, output) ==
    IF ~item.callable
    THEN IF ~output /\ "temp" \in item.flags
         THEN [rule |-> r, exc |-> "SyntaxError"]
         ELSE IF ~output /\ "protected" \in item.flags
         THEN [rule |-> r, exc |-> "SyntaxError"]
         ELSE LET r1 == IF "temp" \in item.flags
                        THEN [r EXCEPT !.temp_output = @ \cup {item.s}] ELSE r
                  r2 == IF "protected" \in item.flags
                        THEN [r1 EXCEPT !.protected_output = @ \cup {item.s}] ELSE r1
                  r3 == IF "dynamic" \in item.flags
                        THEN IF output
                             THEN [r2 EXCEPT !.dynamic_output = @ \cup {item.s}]
                             ELSE [r2 EXCEPT !.dynamic_input = @ \cup {item.s}]
                        ELSE r2
              IN [rule |-> IF output
                           THEN [r3 EXCEPT !.output = Append(@, item.s)]
                           ELSE [r3 EXCEPT !.input = Append(@, Stored(item))],
                  exc |-> "none"]
    ELSE IF output
         THEN [rule |-> r, exc |-> "SyntaxError"]
         ELSE [rule |-> [r EXCEPT !.input = Append(@, Stored(item))], exc |-> "none"]

RECURSIVE set_inoutput_items(_, _, _)
\* the loop "for item in ...: self._set_inoutput_item(item, output)", which
\* stops at the first exception and keeps what was added before it
set_inoutput_items(r, items, output) ==
    IF items = <<>> THEN [rule |-> r, exc |-> "none"]
    ELSE LET one == set_inoutput_item(r, Head(items), output)
         IN IF one.exc # "none" THEN one
            ELSE set_inoutput_items(one.rule, Tail(items), output)

\* Rule.set_input(*input)
set_input(r, items) == set_inoutput_items(r, items, FALSE)

RECURSIVE check_outputs_nodynamic(_, _)
\* check_outputs without the check for a non-dynamic output
check_outputs_nodynamic(r, i) ==
    IF i > Len(r.output) THEN [rule |-> r, exc |-> "none"]
    ELSE LET wildcards == get_wildcard_names(r.output[i])
         IN IF r.wildcard_names # {}
            THEN IF r.wildcard_names # wildcards
                 THEN [rule |-> r, exc |-> "SyntaxError"]
                 ELSE check_outputs_nodynamic(r, i + 1)
            ELSE check_outputs_nodynamic([r EXCEPT !.wildcard_names = wildcards],
                                         i + 1)

RECURSIVE check_outputs(_, _)
\* the loop "for item in self.output" of set_output from output i on: the
\* dynamic check, then the wildcard-name check of each output in turn
check_outputs(r, i) ==
    IF i > Len(r.output) THEN [rule |-> r, exc |-> "none"]
    ELSE IF r.dynamic_output # {} /\ r.output[i] \notin r.dynamic_output
    THEN [rule |-> r, exc |-> "SyntaxError"]
    ELSE LET wildcards == get_wildcard_names(r.output[i])
         IN IF r.wildcard_names # {}
            THEN IF r.wildcard_names # wildcards
                 THEN [rule |-> r, exc |-> "SyntaxError"]
                 ELSE check_outputs(r, i + 1)
            ELSE check_outputs([r EXCEPT !.wildcard_names = wildcards], i + 1)

\* Rule.set_output(*output)
set_output(r, items) ==
    LET added == set_inoutput_items(r, items, TRUE)
    IN IF added.exc # "none" THEN added ELSE check_outputs(added.rule, 1)

\* Rule._set_params_item(item): a string or a function is appended
set_params_item(r, item) == [r EXCEPT !.params = Append(@, Stored(item))]

RECURSIVE set_params(_, _)
\* Rule.set_params(*params)
set_params(r, items) ==
    IF items = <<>> THEN r
    ELSE set_params(set_params_item(r, Head(items)), Tail(items))

\* the setter of Rule.log
set_log(r, f) == [r EXCEPT !.log = Some(f)]

(***************************************************************************)
(* Rule: the queries of the engine.                                        *)
(***************************************************************************)
\* concretize_iofile(f, wildcards) of expand_wildcards: a string that a
\* function returned becomes an IOFile as it is, an IOFile of the rule is
\* rendered
concretize_iofile(r, item, wildcards) ==
    IF item.callable
    THEN [exc |-> "none", s |-> item.s]
    ELSE apply_wildcards(item.s, wildcards, item.s \in r.dynamic_input,
                         r.dynamic_output)

RECURSIVE apply_wildcards_items(_, _, _, _)
\* _apply_wildcards(newitems, olditems, wildcards, wildcards_obj, concretize)
\* of expand_wildcards: the new items, each a value [type, s].  A function is
\* called and must return a string, which is concretized; a string is
\* concretized.  iofile chooses concretize_iofile over apply_wildcards.
apply_wildcards_items(r, olditems, wildcards, iofile) ==
    IF olditems = <<>> THEN [exc |-> "none", items |-> <<>>]
    ELSE LET item == Head(olditems)
             concrete == IF iofile THEN concretize_iofile(r, item, wildcards)
                         ELSE apply_wildcards(item.s, wildcards, FALSE, {})
             rest == apply_wildcards_items(r, Tail(olditems), wildcards, iofile)
         IN IF item.callable /\ item.type # "str"
            THEN [exc |-> "RuleException", items |-> <<>>]
            ELSE IF concrete.exc # "none"
            THEN [exc |-> concrete.exc, items |-> <<>>]
            ELSE IF rest.exc # "none" THEN rest
            ELSE [exc |-> "none",
                  items |-> <<[type |-> "str", s |-> concrete.s]>> \o rest.items]

\* Rule.expand_wildcards(wildcards): (input, output, params, log), or the
\* RuleException raised for a missing wildcard, for a function that did not
\* return a string, or for a WildcardError of a rendering
expand_wildcards(r, wildcards) ==
    LET failed == [exc |-> "RuleException", input |-> <<>>, output |-> <<>>,
                   params |-> <<>>, log |-> None]
        input == apply_wildcards_items(r, r.input, wildcards, TRUE)
        params == apply_wildcards_items(r, r.params, wildcards, FALSE)
        output == [i \in 1..Len(r.output) |->
                      apply_wildcards(r.output[i], wildcards, FALSE, {})]
        log == IF r.log # None
               THEN apply_wildcards(r.log[1], wildcards, FALSE, {})
               ELSE [exc |-> "none", s |-> <<>>]
    IN IF r.wildcard_names \ DOMAIN wildcards # {} THEN failed
       ELSE IF input.exc # "none" THEN failed
       ELSE IF params.exc # "none" THEN failed
       ELSE IF \E i \in 1..Len(r.output) : output[i].exc # "none" THEN failed
       ELSE IF log.exc # "none" THEN failed
       ELSE [exc |-> "none",
             input |-> [i \in 1..Len(input.items) |-> input.items[i].s],
             output |-> [i \in 1..Len(r.output) |-> output[i].s],
             params |-> params.items,
             log |-> IF r.log # None THEN Some(log.s) ELSE None]

\* Rule.is_producer(requested_output)
is_producer(r, requested_output) ==
    \E i \in 1..Len(r.output) : match(r.output[i], requested_output) # None

\* Rule.get_wildcard_len(wildcards)
get_wildcard_len(wildcards) == SumLen(wildcards, DOMAIN wildcards)

\* "not bestmatch" in Python: the variable holds None or an empty dict
NotBestmatch(bestmatch) == bestmatch = None \/ DOMAIN bestmatch[1] = {}

RECURSIVE get_wildcards_from(_, _, _, _, _)
\* the loop of get_wildcards from output i on
get_wildcards_from(r, requested_output, i, bestmatch, bestmatchlen) ==
    IF i > Len(r.output) THEN bestmatch
    ELSE LET m == match(r.output[i], requested_output)
         IN IF m # None /\ (NotBestmatch(bestmatch)
                            \/ bestmatchlen > get_wildcard_len(m[1]))
            THEN get_wildcards_from(r, requested_output, i + 1, m,
                                    get_wildcard_len(m[1]))
            ELSE get_wildcards_from(r, requested_output, i + 1, bestmatch,
                                    bestmatchlen)

\* Rule.get_wildcards(requested_output); requested_output may be None
get_wildcards(r, requested_output) ==
    IF requested_output = None THEN Some(<<>>)
    ELSE get_wildcards_from(r, requested_output[1], 1, None, 0)

(***************************************************************************)
(* Rule.dynamic_branch.                                                    *)
(*                                                                         *)
(* Rule(self) copies references: the clone's lists and sets are the        *)
(* original's own objects, so what dynamic_branch changes in place through *)
(* the clone it changes in the original.  A step below therefore acts on   *)
(* the fields r of the original, and the clone is the record of its own    *)
(* rebound fields together with the shared ones as they are on return.     *)
(***************************************************************************)
\* Namedlist.insert_items(index, items): the item at the (1-based) index is
\* replaced by the items
insert_items(list, index, items) ==
    LET n == Len(list)
        lo == IF index - 1 < n THEN index - 1 ELSE n
    IN SubSeq(list, 1, lo) \o items \o SubSeq(list, index + 1, n)

\* get_io(rule): the list and the dynamic set of the chosen side, the list
\* as patterns (a function among the inputs is no pattern)
IoList(r, input) == IF input THEN r.input ELSE r.output
DynamicIo(r, input) == IF input THEN r.dynamic_input ELSE r.dynamic_output
InDynamicIo(r, input, i) ==
    IF input
    THEN ~r.input[i].callable /\ r.input[i].s \in r.dynamic_input
    ELSE r.output[i] \in r.dynamic_output
PatternAt(r, input, i) == IF input THEN r.input[i].s ELSE r.output[i]

RECURSIVE ReplacementsFrom(_, _, _, _)
\* line 88: (i, io[i], e) for the entries of expansion, last one first; e is
\* the reversed expansion of line 80.  expansion is a defaultdict that gets
\* an entry for i with the first file appended, so a dynamic item whose
\* expansion is empty has no entry and is not replaced.
ReplacementsFrom(r, wildcards, input, i) ==
    IF i < 1 THEN <<>>
    ELSE IF InDynamicIo(r, input, i)
            /\ expand(PatternAt(r, input, i), wildcards).files # <<>>
         THEN <<[i |-> i, old |-> PatternAt(r, input, i),
                 exp |-> Reverse(expand(PatternAt(r, input, i), wildcards).files)]>>
              \o ReplacementsFrom(r, wildcards, input, i - 1)
         ELSE ReplacementsFrom(r, wildcards, input, i - 1)

\* Expansion with the KeyError swallowed: a failed expansion counts as empty
Expansion_swallow(r, wildcards, input) ==
    [exc |-> "none",
     replacements |-> ReplacementsFrom(r, wildcards, input, Len(IoList(r, input)))]

\* lines 75-88: the replacements, or the KeyError of an expansion, which
\* makes dynamic_branch return None
Expansion(r, wildcards, input) ==
    IF \E i \in 1..Len(IoList(r, input)) :
          InDynamicIo(r, input, i)
          /\ expand(PatternAt(r, input, i), wildcards).exc = "KeyError"
    THEN [exc |-> "KeyError", replacements |-> <<>>]
    ELSE [exc |-> "none",
          replacements |-> ReplacementsFrom(r, wildcards, input,
                                            Len(IoList(r, input)))]

\* lines 90-91, one pass of the loop: dynamic_io_.remove(old), which raises
\* KeyError when old is not in the set, and io_.insert_items(i, exp)
Replace(r, rep, input) ==
    IF rep.old \notin DynamicIo(r, input)
    THEN [rule |-> r, exc |-> "KeyError"]
    ELSE [rule |->
            IF input
            THEN [r EXCEPT !.dynamic_input = @ \ {rep.old},
                           !.input = insert_items(@, rep.i,
                                        [j \in 1..Len(rep.exp) |-> IOFile(rep.exp[j])])]
            ELSE [r EXCEPT !.dynamic_output = @ \ {rep.old},
                           !.output = insert_items(@, rep.i, rep.exp)],
          exc |-> "none"]

RECURSIVE ReplaceAll(_, _, _)
\* lines 89-91
ReplaceAll(r, replacements, input) ==
    IF replacements = <<>> THEN [rule |-> r, exc |-> "none"]
    ELSE LET one == Replace(r, Head(replacements), input)
         IN IF one.exc # "none" THEN one
            ELSE ReplaceAll(one.rule, Tail(replacements), input)

RECURSIVE MoveFlags(_, _)
\* lines 94-100: the temp and protected flags of a replaced output go to
\* its expansions
MoveFlags(r, replacements) ==
    IF replacements = <<>> THEN r
    ELSE LET rep == Head(replacements)
             r1 == IF rep.old \in r.temp_output
                   THEN [r EXCEPT !.temp_output = (@ \ {rep.old}) \cup Range(rep.exp)]
                   ELSE r
             r2 == IF rep.old \in r1.protected_output
                   THEN [r1 EXCEPT !.protected_output =
                                      (@ \ {rep.old}) \cup Range(rep.exp)]
                   ELSE r1
         IN MoveFlags(r2, Tail(replacements))

\* non_dynamic_wildcards with len(values) == 1 for len(set(values)) == 1
non_dynamic_wildcards_len(wildcards) ==
    [name \in {n \in DOMAIN wildcards : Len(wildcards[n]) = 1}
        |-> wildcards[name][1]]

\* lines 103-105: the names whose list has one unique value, with that value
non_dynamic_wildcards(wildcards) ==
    [name \in {n \in DOMAIN wildcards : Cardinality(Range(wildcards[n])) = 1}
        |-> wildcards[name][1]]

\* what dynamic_branch hands back: the clone's fields and the binding (the
\* input side returns the clone alone: the binding is then empty)
Returned(branch, binding) == Some([branch |-> branch, wildcards |-> binding])

\* lines 93-113: the rest of dynamic_branch after the replacements
Finish(r, replacements, wildcards, input) ==
    IF input THEN [rule |-> r, exc |-> "none", val |-> Returned(r, <<>>)]
    ELSE LET r1 == [MoveFlags(r, replacements) EXCEPT !.wildcard_names = {}]
             nd == non_dynamic_wildcards(wildcards)
             e == expand_wildcards(r1, nd)
         IN IF e.exc # "none"
            THEN [rule |-> r1, exc |-> e.exc, val |-> None]
            ELSE [rule |-> r1, exc |-> "none",
                  val |-> Returned(
                     [r1 EXCEPT !.input = [i \in 1..Len(e.input) |-> IOFile(e.input[i])],
                                !.output = e.output,
                                !.params = [i \in 1..Len(e.params) |->
                                              IOFile(e.params[i].s)],
                                !.log = e.log],
                     nd)]

\* Rule.dynamic_branch(wildcards, input): the original's fields afterwards,
\* the exception raised if any, and the value returned
dynamic_branch(r, wildcards, input) ==
    LET x == Expansion(r, wildcards, input)
        replaced == ReplaceAll(r, x.replacements, input)
    IN IF x.exc = "KeyError" THEN [rule |-> r, exc |-> "none", val |-> None]
       ELSE IF replaced.exc # "none"
       THEN [rule |-> replaced.rule, exc |-> replaced.exc, val |-> None]
       ELSE Finish(replaced.rule, x.replacements, wildcards, input)

(***************************************************************************)
(* Ruleorder.                                                              *)
(***************************************************************************)
\* list.index(x): the first position of x
Index(clause, x) == CHOOSE i \in 1..Len(clause) :
                       clause[i] = x /\ \A j \in 1..(i - 1) : clause[j] # x

\* the sign of j - i without the case j = i
Sign_nozero(i, j) == IF j - i < 0 THEN -1 ELSE 1

\* lines 419-424: the sign of j - i
Sign(i, j) == IF j - i < 0 THEN -1 ELSE IF j - i > 0 THEN 1 ELSE 0

RECURSIVE compare_oldest_first(_, _, _, _)
\* compare_from over self.order instead of reversed(self.order)
compare_oldest_first(ord, k, rule1name, rule2name) ==
    IF k < 1 THEN 0
    ELSE LET clause == ord[Len(ord) + 1 - k]
         IN IF rule1name \in Range(clause) /\ rule2name \in Range(clause)
            THEN Sign(Index(clause, rule1name), Index(clause, rule2name))
            ELSE compare_oldest_first(ord, k - 1, rule1name, rule2name)

RECURSIVE compare_from(_, _, _, _)
\* the loop of compare over reversed(self.order), from clause k down; a
\* clause without one of the names raises ValueError and is passed over
compare_from(ord, k, rule1name, rule2name) ==
    IF k < 1 THEN 0
    ELSE IF rule1name \in Range(ord[k]) /\ rule2name \in Range(ord[k])
         THEN Sign(Index(ord[k], rule1name), Index(ord[k], rule2name))
         ELSE compare_from(ord, k - 1, rule1name, rule2name)

\* Ruleorder.compare(rule1name, rule2name)
compare(ord, rule1name, rule2name) ==
    compare_from(ord, Len(ord), rule1name, rule2name)

\* Ruleorder.add(*rulenames)
add(ord, rulenames) == Append(ord, rulenames)

(***************************************************************************)
(* The inputs.                                                             *)
(***************************************************************************)
Pa == <<"a">>            \* "a"
Px == <<"x">>            \* "{x}"
Pxb == <<"x", "b">>      \* "{x}b"
Pax == <<"a", "x">>      \* "a{x}"
Pxy == <<"x", "y">>      \* "{x}{y}"

\* the items carry the flags the DSL wrappers temp(), protected() and
\* dynamic() put on a string
OutputItems == {StrItem(Pa, {}), StrItem(Px, {}), StrItem(Px, {"dynamic"}),
                StrItem(Pxy, {}), StrItem(Pxy, {"dynamic"}),
                StrItem(Pxy, {"dynamic", "temp", "protected"})}
InputItems == {StrItem(Px, {}), StrItem(Pxy, {"dynamic"}), StrItem(Px, {"temp"}),
               FuncItem("str", Pa)}

NonEmptySeqs(S, n) == SeqsUpTo(S, n) \ {<<>>}

\* name -> list of values, the lists of one length k <= MaxK
WildcardLists ==
    UNION {[D -> [1..k -> Values]] : D \in SUBSET Names, k \in 0..MaxK}

NoArg == [wildcards |-> <<>>, input |-> FALSE, path |-> None, names |-> <<>>]
NoRet == [exc |-> "none", val |-> None]

(***************************************************************************)
(* Spec: the parser builds a rule with set_output and set_input, then the  *)
(* engine branches it.  op names the last operation, arg its arguments,    *)
(* ret its outcome, orig the rule's fields when it began.  Construction    *)
(* ends with the first call of the engine.                                 *)
(***************************************************************************)
Building == op \in {"new", "set_output", "set_input", "set_params", "set_log"}

\* the rule is handed to the engine when the last construction call did not
\* raise (a SyntaxError ends the parsing of the workflow)
Constructed == Building /\ ret.exc = "none"

Init ==
    /\ rule = NewRule
    /\ orig = NewRule
    /\ op = "new"
    /\ arg = NoArg
    /\ ret = NoRet
    /\ order = <<>>
    /\ threads = <<>>
    /\ base = NewRule

SetOutput ==
    /\ Building
    /\ Len(rule.output) < MaxOutputs
    /\ \E items \in NonEmptySeqs(OutputItems, MaxOutputs) :
          /\ Len(rule.output) + Len(items) <= MaxOutputs
          /\ LET done == set_output(rule, items)
             IN /\ rule' = done.rule
                /\ ret' = [exc |-> done.exc, val |-> None]
    /\ orig' = rule
    /\ op' = "set_output"
    /\ UNCHANGED <<arg, order, threads, base>>

SetInput ==
    /\ Building
    /\ rule.input = <<>>
    /\ \E item \in InputItems :
          LET done == set_input(rule, <<item>>)
          IN /\ rule' = done.rule
             /\ ret' = [exc |-> done.exc, val |-> None]
    /\ orig' = rule
    /\ op' = "set_input"
    /\ UNCHANGED <<arg, order, threads, base>>

DynamicBranch ==
    /\ Constructed
    /\ \E wildcards \in WildcardLists, input \in BOOLEAN :
          LET done == dynamic_branch(rule, wildcards, input)
          IN /\ rule' = done.rule
             /\ ret' = [exc |-> done.exc, val |-> done.val]
             /\ arg' = [NoArg EXCEPT !.wildcards = wildcards, !.input = input]
    /\ orig' = rule
    /\ op' = "dynamic_branch"
    /\ UNCHANGED <<order, threads, base>>

Next == SetOutput \/ SetInput \/ DynamicBranch

Spec == Init /\ [][Next]_vars

(***************************************************************************)
(* Properties of Spec.                                                     *)
(***************************************************************************)
Branched == op = "dynamic_branch"

\* C1: dynamic_branch is pure: after the call every field of the original
\* rule has the contents it had before the call.
C1_BranchIsPure == (Branched /\ ret.exc = "none") => rule = orig

\* the outputs of r do not all have the same wildcard names
WildcardSetMismatch(r) ==
    \E i, j \in 1..Len(r.output) :
       get_wildcard_names(r.output[i]) # get_wildcard_names(r.output[j])

\* C5: set_output fails whenever two outputs of the rule have different
\* wildcard-name sets, and after a successful set_output every output's
\* wildcard-name set equals rule.wildcard_names.
C5_MismatchFails ==
    op = "set_output" =>
       /\ WildcardSetMismatch(rule) => ret.exc = "SyntaxError"
       /\ ret.exc = "none" =>
             \A i \in 1..Len(rule.output) :
                get_wildcard_names(rule.output[i]) = rule.wildcard_names

\* r has a dynamic output and an output that is not in dynamic_output
MixedDynamicOutput(r) ==
    /\ r.dynamic_output # {}
    /\ \E i \in 1..Len(r.output) : r.output[i] \notin r.dynamic_output

\* C8: a set_output call that leaves an output outside dynamic_output next to
\* a dynamic one fails; after a successful call a rule with a dynamic output
\* has every output in dynamic_output.
C8_MixedDynamicFails ==
    op = "set_output" =>
       /\ MixedDynamicOutput(rule) => ret.exc = "SyntaxError"
       /\ (ret.exc = "none" /\ rule.dynamic_output # {}) =>
             \A i \in 1..Len(rule.output) : rule.output[i] \in rule.dynamic_output

\* a dynamic output was set by an earlier call, and this call added a
\* non-dynamic one and failed
C8_Witness ==
    /\ op = "set_output"
    /\ ret.exc = "SyntaxError"
    /\ orig.output # <<>>
    /\ \A i \in 1..Len(orig.output) : orig.output[i] \in orig.dynamic_output
    /\ MixedDynamicOutput(rule)

\* the list holds at least one value and all its values are equal
Constant(values) ==
    values # <<>> /\ \A i, j \in 1..Len(values) : values[i] = values[j]

\* C9: the binding an output-side dynamic_branch returns holds exactly the
\* names whose list has one unique value, each bound to that value; a name
\* whose list is empty or has two distinct values is not in it.
C9_NonDynamicBinding ==
    (Branched /\ ~arg.input /\ ret.exc = "none" /\ ret.val # None) =>
       LET binding == ret.val[1].wildcards
       IN /\ \A n \in DOMAIN arg.wildcards :
                n \in DOMAIN binding <=> Constant(arg.wildcards[n])
          /\ DOMAIN binding \subseteq DOMAIN arg.wildcards
          /\ \A n \in DOMAIN binding :
                \A i \in 1..Len(arg.wildcards[n]) : binding[n] = arg.wildcards[n][i]

\* the lists {x: [a, a], y: [a, b]} on a rule with the dynamic output "{x}{y}"
\* give the binding {x: a}
C9_Witness ==
    /\ Branched /\ ~arg.input /\ ret.exc = "none" /\ ret.val # None
    /\ orig.output = <<Pxy>> /\ orig.dynamic_output = {Pxy}
    /\ arg.wildcards = [n \in Names |-> IF n = "x" THEN <<<<"a">>, <<"a">>>>
                                                    ELSE <<<<"a">>, <<"b">>>>]
    /\ ret.val[1].wildcards = [n \in {"x"} |-> <<"a">>]

\* some rendering of a dynamic pattern of the chosen side needs a name that
\* has no list
NeedsAbsentName(r, wildcards, input) ==
    /\ ZipLen(wildcards) >= 1
    /\ \E i \in 1..Len(IoList(r, input)) :
          /\ InDynamicIo(r, input, i)
          /\ get_wildcard_names(PatternAt(r, input, i)) \ DOMAIN wildcards # {}

\* C10: when a rendering of a dynamic pattern of the chosen side needs a name
\* absent from the wildcard lists, dynamic_branch returns None and has
\* changed no field of the rule.
C10_AbsentNameNone ==
    (Branched /\ NeedsAbsentName(orig, arg.wildcards, arg.input)) =>
       /\ ret.exc = "none"
       /\ ret.val = None
       /\ rule = orig

\* "{x}{y}" is a dynamic output, only x has a list, and None came back
C10_Witness ==
    /\ Branched /\ ~arg.input
    /\ NeedsAbsentName(orig, arg.wildcards, arg.input)
    /\ Pxy \in orig.dynamic_output
    /\ DOMAIN arg.wildcards = {"x"}
    /\ ret.val = None

(***************************************************************************)
(* SpecQuery: the parser builds a rule with plain outputs, an input, a     *)
(* param and a log, then the engine asks for the wildcards of a path,      *)
(* whether the rule produces it, or for the expansion under a binding.     *)
(***************************************************************************)
PlainOutputItems == {StrItem(f, {}) : f \in {Pa, Px, Pxb, Pax}}
ParamItems == {StrItem(Pa, {}), StrItem(Px, {}), FuncItem("int", <<>>),
               FuncItem("str", Pa), FuncItem("str", Px)}
LogPatterns == {Pa, Px}
Paths == NonEmptySeqs(Chars, MaxPathLen)
Bindings == UNION {[D -> Values] : D \in SUBSET Names}

SetPlainOutput ==
    /\ Building
    /\ Len(rule.output) < MaxOutputs
    /\ \E items \in NonEmptySeqs(PlainOutputItems, MaxOutputs) :
          /\ Len(rule.output) + Len(items) <= MaxOutputs
          /\ LET done == set_output(rule, items)
             IN /\ rule' = done.rule
                /\ ret' = [exc |-> done.exc, val |-> None]
    /\ orig' = rule
    /\ op' = "set_output"
    /\ UNCHANGED <<arg, order, threads, base>>

SetParams ==
    /\ Building
    /\ rule.params = <<>>
    /\ \E item \in ParamItems : rule' = set_params(rule, <<item>>)
    /\ ret' = NoRet
    /\ orig' = rule
    /\ op' = "set_params"
    /\ UNCHANGED <<arg, order, threads, base>>

SetLog ==
    /\ Building
    /\ rule.log = None
    /\ \E f \in LogPatterns : rule' = set_log(rule, f)
    /\ ret' = NoRet
    /\ orig' = rule
    /\ op' = "set_log"
    /\ UNCHANGED <<arg, order, threads, base>>

GetWildcards ==
    /\ Constructed
    /\ \E requested_output \in {None} \cup {Some(p) : p \in Paths} :
          /\ ret' = [exc |-> "none", val |-> get_wildcards(rule, requested_output)]
          /\ arg' = [NoArg EXCEPT !.path = requested_output]
    /\ orig' = rule
    /\ op' = "get_wildcards"
    /\ UNCHANGED <<rule, order, threads, base>>

IsProducer ==
    /\ Constructed
    /\ \E requested_output \in Paths :
          /\ ret' = [exc |-> "none", val |-> is_producer(rule, requested_output)]
          /\ arg' = [NoArg EXCEPT !.path = Some(requested_output)]
    /\ orig' = rule
    /\ op' = "is_producer"
    /\ UNCHANGED <<rule, order, threads, base>>

ExpandWildcards ==
    /\ Constructed
    /\ \E wildcards \in Bindings :
          LET e == expand_wildcards(rule, wildcards)
          IN /\ ret' = [exc |-> e.exc, val |-> e]
             /\ arg' = [NoArg EXCEPT !.wildcards = wildcards]
    /\ orig' = rule
    /\ op' = "expand_wildcards"
    /\ UNCHANGED <<rule, order, threads, base>>

NextQuery ==
    \/ SetPlainOutput \/ SetInput \/ SetParams \/ SetLog
    \/ GetWildcards \/ IsProducer \/ ExpandWildcards

SpecQuery == Init /\ [][NextQuery]_vars

(***************************************************************************)
(* Properties of SpecQuery.                                                *)
(***************************************************************************)
\* the outputs of r that match the path
Matching(r, path) == {i \in 1..Len(r.output) : match(r.output[i], path) # None}

\* the aggregate captured length of output i on the path
CapturedLen(r, path, i) ==
    LET b == match(r.output[i], path)[1] IN SumLen(b, DOMAIN b)

\* C4: get_wildcards returns the binding of the matching output with the
\* minimum aggregate captured length, of the one declared first among several
\* with that minimum, and None when no output matches.
C4_MostSpecificMatch ==
    (op = "get_wildcards" /\ arg.path # None) =>
       LET path == arg.path[1]
           m == Matching(rule, path)
       IN IF m = {} THEN ret.val = None
          ELSE \E i \in m :
                  /\ \A j \in m : CapturedLen(rule, path, i) <= CapturedLen(rule, path, j)
                  /\ \A j \in m : CapturedLen(rule, path, j) = CapturedLen(rule, path, i)
                                     => i <= j
                  /\ ret.val = match(rule.output[i], path)

\* C7: a callable param is called and its result, of any type, is in the
\* expanded params as it is: it is not type-checked and not rendered, so it
\* never makes an expansion fail that succeeds without the params.
C7_ParamFunctionVerbatim ==
    op = "expand_wildcards" =>
       \A i \in 1..Len(rule.params) :
          (rule.params[i].callable
           /\ expand_wildcards([rule EXCEPT !.params = <<>>], arg.wildcards).exc = "none")
          => /\ ret.exc = "none"
             /\ ret.val.params[i] = [type |-> rule.params[i].type, s |-> rule.params[i].s]

(***************************************************************************)
(* SpecOrder: ruleorder clauses are added, and two names are compared.     *)
(***************************************************************************)
Clauses == SeqsUpTo(RuleNames, MaxClauseLen)

Add ==
    /\ op # "compare"
    /\ Len(order) < MaxClauses
    /\ \E rulenames \in Clauses : order' = add(order, rulenames)
    /\ op' = "add"
    /\ UNCHANGED <<rule, orig, arg, ret, threads, base>>

Compare ==
    /\ op # "compare"
    /\ \E rule1name, rule2name \in RuleNames :
          /\ ret' = [exc |-> "none", val |-> compare(order, rule1name, rule2name)]
          /\ arg' = [NoArg EXCEPT !.names = <<rule1name, rule2name>>]
    /\ op' = "compare"
    /\ UNCHANGED <<rule, orig, order, threads, base>>

NextOrder == Add \/ Compare

SpecOrder == Init /\ [][NextOrder]_vars

(***************************************************************************)
(* Properties of SpecOrder.                                                *)
(***************************************************************************)
\* the clauses that contain both names
WithBoth(a, b) == {k \in 1..Len(order) : a \in Range(order[k]) /\ b \in Range(order[k])}

\* the most recently added clause that contains both names
Deciding(a, b) == order[CHOOSE k \in WithBoth(a, b) : \A m \in WithBoth(a, b) : m <= k]

\* a has a smaller index than b in the clause
Before(clause, a, b) ==
    \E i \in 1..Len(clause) :
       /\ clause[i] = a
       /\ \A j \in 1..i : clause[j] # b

C3_Antisymmetric ==
    op = "compare" =>
       LET a == arg.names[1]
           b == arg.names[2]
       IN /\ ret.val = 0 - compare(order, b, a)
          /\ WithBoth(a, b) = {} => ret.val = 0

\* two names that some clause orders, and two that no clause holds together
C3_Witness ==
    /\ op = "compare"
    /\ ret.val = 1
    /\ compare(order, arg.names[2], arg.names[1]) = -1
    /\ \E c \in RuleNames : WithBoth(arg.names[1], c) = {} /\ compare(order, arg.names[1], c) = 0

(***************************************************************************)
(* SpecConc: the parser builds a rule, then two threads call               *)
(* dynamic_branch on it at the same time.  A thread is at "begin" (before  *)
(* line 75), at "replace" (in the loop of lines 89-91, todo holding the    *)
(* replacements still to make), at "finish" (before line 93) or "done".    *)
(* saw is the rule's fields as the thread found them at line 75.           *)
(***************************************************************************)
Threads == {1, 2}

\* two threads branch with lists that make x constant and y vary
ConcurrentLists ==
    {[n \in Names |-> IF n = "x" THEN <<v, v>> ELSE <<<<"a">>, <<"b">>>>] : v \in Values}

StartThreads ==
    /\ Constructed
    /\ threads = <<>>
    /\ \E w1, w2 \in ConcurrentLists, i1, i2 \in BOOLEAN :
          threads' = [t \in Threads |->
                        [pc |-> "begin",
                         wildcards |-> IF t = 1 THEN w1 ELSE w2,
                         input |-> IF t = 1 THEN i1 ELSE i2,
                         replacements |-> <<>>, todo |-> <<>>,
                         saw |-> NewRule, ret |-> NoRet]]
    /\ base' = rule
    /\ op' = "concurrent"
    /\ UNCHANGED <<rule, orig, arg, ret, order>>

\* lines 75-88 of thread t
Begin(t) ==
    /\ threads # <<>>
    /\ threads[t].pc = "begin"
    /\ LET x == Expansion(rule, threads[t].wildcards, threads[t].input)
       IN threads' = [threads EXCEPT
             ![t].saw = rule,
             ![t].replacements = x.replacements,
             ![t].todo = x.replacements,
             ![t].pc = IF x.exc = "KeyError" THEN "done"
                       ELSE IF x.replacements = <<>> THEN "finish" ELSE "replace"]
    /\ UNCHANGED <<rule, orig, op, arg, ret, order, base>>

\* one pass of the loop of lines 89-91 of thread t
ReplaceStep(t) ==
    /\ threads # <<>>
    /\ threads[t].pc = "replace"
    /\ LET one == Replace(rule, Head(threads[t].todo), threads[t].input)
       IN IF one.exc # "none"
          THEN /\ threads' = [threads EXCEPT ![t].pc = "done",
                                             ![t].ret = [exc |-> one.exc, val |-> None]]
               /\ rule' = rule
          ELSE /\ threads' = [threads EXCEPT
                     ![t].todo = Tail(@),
                     ![t].pc = IF Tail(threads[t].todo) = <<>> THEN "finish"
                               ELSE "replace"]
               /\ rule' = one.rule
    /\ UNCHANGED <<orig, op, arg, ret, order, base>>

\* lines 93-113 of thread t
FinishStep(t) ==
    /\ threads # <<>>
    /\ threads[t].pc = "finish"
    /\ LET f == Finish(rule, threads[t].replacements, threads[t].wildcards,
                       threads[t].input)
       IN /\ rule' = f.rule
          /\ threads' = [threads EXCEPT ![t].pc = "done",
                                        ![t].ret = [exc |-> f.exc, val |-> f.val]]
    /\ UNCHANGED <<orig, op, arg, ret, order, base>>

NextConc ==
    \/ SetOutput \/ SetInput \/ StartThreads
    \/ \E t \in Threads : Begin(t) \/ ReplaceStep(t) \/ FinishStep(t)

SpecConc == Init /\ [][NextConc]_vars

(***************************************************************************)
(* Properties of SpecConc.                                                 *)
(***************************************************************************)
\* what the call of thread t returns or raises when it runs alone on the
\* rule the threads were started on
Alone(t) ==
    LET d == dynamic_branch(base, threads[t].wildcards, threads[t].input)
    IN [exc |-> d.exc, val |-> d.val]

\* both threads have entered dynamic_branch, each before the other changed
\* anything: the two calls overlap
Overlapping ==
    /\ threads # <<>>
    /\ \A t \in Threads : threads[t].pc # "begin" /\ threads[t].saw = base

\* C6: two dynamic_branch calls that run concurrently on one rule each
\* complete without an error caused by the other and return what they
\* return when run alone.
C6_ConcurrentBranchSafe ==
    Overlapping =>
       \A t \in Threads : threads[t].pc = "done" => threads[t].ret = Alone(t)

====
